---- MODULE Spec2Model ----
(***************************************************************************)
(* A model of the goisilon client library: the generic OneFS HTTP client   *)
(* (api/api.go) and the resource wrappers built on it (snapshots, quotas,  *)
(* volumes).  Strings that the code inspects character by character (the   *)
(* hostname, the resource path, the id, the version string) are sequences  *)
(* of one-character tokens; every other string is an opaque token.  One    *)
(* action is one exported call, from entry to return, and the appliance's  *)
(* replies to the requests it makes are inputs of the action.              *)
(***************************************************************************)
EXTENDS Integers, Sequences, FiniteSets, TLC

VARIABLES client, op, args, sent, ret, calls

vars == <<client, op, args, sent, ret, calls>>

(***************************************************************************)
(* Bounds of the model.                                                    *)
(***************************************************************************)
MaxUriLen == 3
MaxIdLen == 2
MaxErrs == 2
MaxLatestLen == 3
MaxList == 2
MaxGoroutines == 2

(***************************************************************************)
(* Program constants.                                                      *)
(***************************************************************************)
headerKeyContentType == "Content-Type"
headerValContentTypeJSON == <<"application/json">>
headerValContentTypeBinaryOctetStream == <<"binary/octet-stream">>
defaultVolumesPath == "/ifs/volumes"
MinAPIVersion == 3
DefaultAPIVersion == 2
StatusOKLow == 200
StatusOKHigh == 299
Uint8Max == 255

(***************************************************************************)
(* Sequences up to a length, and the orders in which a Go map may be       *)
(* ranged over.                                                            *)
(***************************************************************************)
RECURSIVE SeqsUpTo(_, _)
SeqsUpTo(S, n) ==
    IF n = 0 THEN {<<>>}
    ELSE LET shorter == SeqsUpTo(S, n - 1)
         IN  shorter \cup {Append(q, x) : q \in shorter, x \in S}

Perms(S) == {f \in [1..Cardinality(S) -> S] : \A i, j \in 1..Cardinality(S) : f[i] = f[j] => i = j}

HasPrefix(s, p) == Len(s) >= Len(p) /\ SubSeq(s, 1, Len(p)) = p

(***************************************************************************)
(* Values.  Nil is the nil pointer / nil interface.                        *)
(***************************************************************************)
Nil == [nil |-> TRUE]
NoClient == [nil |-> TRUE]
\* a *string: nil, or a pointer to the characters s
NilString == [nil |-> TRUE, s |-> <<>>]
StringPtr(s) == [nil |-> FALSE, s |-> s]
NilBody == [kind |-> "nil", data |-> [none |-> TRUE]]

(***************************************************************************)
(* Errors: a kind and the text err.Error() returns, as tokens.             *)
(***************************************************************************)
NoErr == [kind |-> "nil", msg |-> <<>>, code |-> 0]
errNewClient == [kind |-> "errors.New", msg |-> <<"missing endpoint, username, or password">>, code |-> 0]
errOldRelease == [kind |-> "errors.New", msg |-> <<"OneFS releases older than 8.0 are no longer supported">>, code |-> 0]
errEOF == [kind |-> "io.EOF", msg |-> <<"EOF">>, code |-> 0]
errSyntax == [kind |-> "json.SyntaxError", msg |-> <<"invalid character">>, code |-> 0]
errUnmarshalType == [kind |-> "json.UnmarshalTypeError", msg |-> <<"json: ", "cannot unmarshal">>, code |-> 0]
errUnsupportedType == [kind |-> "json.UnsupportedTypeError", msg |-> <<"json: ", "unsupported type">>, code |-> 0]
errTransport == [kind |-> "url.Error", msg |-> <<"dial tcp: connection refused">>, code |-> 0]
errBadMethod == [kind |-> "http.NewRequest", msg |-> <<"net/http: invalid method">>, code |-> 0]
errParseUint == [kind |-> "strconv.NumError", msg |-> <<"strconv.ParseUint: ", "invalid syntax or out of range">>, code |-> 0]

JSONErrorOf(message, statusCode) == [kind |-> "JSONError", msg |-> message, code |-> statusCode]

(***************************************************************************)
(* URL assembly (DoAndGetResponseBody, first half).                        *)
(***************************************************************************)
beginsWithSlash(s) == s[1] = "/"

endsWithSlash(s) == s[Len(s)] = "/"

\* OrderedValues.EncodeTo: key=value pairs joined by &, in insertion order; a
\* pair without a value is the bare key.  A value is a sequence of tokens.
RECURSIVE EncodeTo(_)
EncodeTo(params) ==
    IF params = <<>> THEN <<>>
    ELSE LET p == Head(params)
             one == IF Len(p) = 1 THEN <<p[1]>> ELSE <<p[1], "=">> \o p[2]
         IN  one \o (IF Len(params) > 1 THEN <<"&">> ELSE <<>>) \o EncodeTo(Tail(params))

\* ubf.WriteString(c.hostname), then "/" unless the hostname ends with one
HostPart(hostname, uri, id) ==
    hostname \o (IF ~endsWithSlash(hostname) /\ (Len(uri) > 0 \/ Len(id) > 0) THEN <<"/">> ELSE <<>>)

\* a WriteHostname that normalises the client's hostname in place
WriteHostnameInPlace(c, uri, id) ==
    [c |-> [c EXCEPT !.hostname = HostPart(c.hostname, uri, id)], ubf |-> HostPart(c.hostname, uri, id)]

\* the same lines as a step on the client: the hostname is copied into the
\* buffer ubf, and c is the client as the step leaves it
WriteHostname(c, uri, id) == [c |-> c, ubf |-> HostPart(c.hostname, uri, id)]

\* the path without its leading slash, then "/" unless it ends with one
UriPart(uri) ==
    IF Len(uri) > 0
    THEN (IF beginsWithSlash(uri) THEN SubSeq(uri, 2, Len(uri)) ELSE uri)
         \o (IF ~endsWithSlash(uri) THEN <<"/">> ELSE <<>>)
    ELSE <<>>

\* the id, written as it is
IdPart(id) == IF Len(id) > 0 THEN id ELSE <<>>

QueryPart(params) == IF Len(params) > 0 THEN <<"?">> \o EncodeTo(params) ELSE <<>>

BuildURL(hostname, uri, id, params) ==
    HostPart(hostname, uri, id) \o UriPart(uri) \o IdPart(id) \o QueryPart(params)

\* endsWithSlash(c.hostname), beginsWithSlash(uri) and endsWithSlash(uri) index
\* the string before its length is looked at: an empty one is a run-time panic.
UrlFlagsPanic(hostname, uri) == Len(hostname) = 0 \/ Len(uri) = 0

(***************************************************************************)
(* Request headers.  http.Header keys are canonicalised by Set and Add;    *)
(* the caller's map[string]string keys are not.                            *)
(***************************************************************************)
CallerHeaderKeys == {"Content-Type", "content-type", "Authorization"}
WrapperHeaderKeys == {"x-isi-ifs-target-type", "x-isi-ifs-access-control"}

Canonical(k) ==
    CASE k = "content-type" -> "Content-Type"
      [] k = "x-isi-ifs-target-type" -> "X-Isi-Ifs-Target-Type"
      [] k = "x-isi-ifs-access-control" -> "X-Isi-Ifs-Access-Control"
      [] OTHER -> k

CanonKeys == {Canonical(k) : k \in CallerHeaderKeys \cup WrapperHeaderKeys}

EmptyHeader == [k \in CanonKeys |-> <<>>]
NoHeaders == [k \in {} |-> <<>>]

HeaderSet(h, k, v) == [h EXCEPT ![Canonical(k)] = <<v>>]
HeaderAdd(h, k, v) == [h EXCEPT ![Canonical(k)] = Append(@, v)]

\* the Content-Type a request with a body is given before the caller's headers
\* are added: the caller's map entry under "Content-Type", else the default
ContentTypeFor(headers, default) ==
    IF headerKeyContentType \in DOMAIN headers THEN headers[headerKeyContentType] ELSE default

\* if header == headerKeyContentType && isContentTypeSet { continue }
SkipHeader(header, isContentTypeSet) == header = headerKeyContentType /\ isContentTypeSet

\* for header, value := range headers { ... req.Header.Add(header, value) }
RECURSIVE AddHeaders(_, _, _, _)
AddHeaders(h, headers, order, isContentTypeSet) ==
    IF order = <<>> THEN h
    ELSE LET k == Head(order)
             h2 == IF SkipHeader(k, isContentTypeSet) THEN h ELSE HeaderAdd(h, k, headers[k])
         IN  AddHeaders(h2, headers, Tail(order), isContentTypeSet)

\* req.SetBasicAuth(c.username, c.password): Header.Set("Authorization", ...)
BasicAuth(username, password) == <<"Basic", username, ":", password>>

\* a SetBasicAuth that adds to the values under Authorization
AddBasicAuth(h, c) == HeaderAdd(h, "Authorization", BasicAuth(c.username, c.password))

SetBasicAuth(h, c) == HeaderSet(h, "Authorization", BasicAuth(c.username, c.password))

(***************************************************************************)
(* Request body and http.NewRequest.                                       *)
(***************************************************************************)
ValidMethods == {"GET", "POST", "PUT", "DELETE"}

\* http.NewRequest returns (nil, err) for a method that is no HTTP token
NewRequestFails(method) == method \notin ValidMethods

\* json.NewEncoder(buf).Encode(body)
Encode(body) ==
    IF body.kind = "unencodable"
    THEN [err |-> errUnsupportedType, data |-> NilBody]
    ELSE [err |-> NoErr, data |-> [kind |-> "json", data |-> body.data]]

IsStream(body) == body.kind = "stream"

(***************************************************************************)
(* DoAndGetResponseBody: builds and sends one request.  t is what the      *)
(* transport does with it: a transport error, or a response.  The result   *)
(* holds the requests handed to the transport, the error returned, and     *)
(* whether the call panicked.                                              *)
(***************************************************************************)
DoAndGetResponseBody(c, method, uri, id, params, headers, order, body, t) ==
    LET none == [panic |-> FALSE, err |-> NoErr, sent |-> <<>>]
    IN
    IF UrlFlagsPanic(c.hostname, uri) THEN [none EXCEPT !.panic = TRUE]
    ELSE
    LET url == BuildURL(c.hostname, uri, id, params)
        enc == IF body = NilBody \/ IsStream(body) THEN [err |-> NoErr, data |-> body] ELSE Encode(body)
        default == IF IsStream(body) THEN headerValContentTypeBinaryOctetStream
                   ELSE headerValContentTypeJSON
        h0 == IF body = NilBody THEN EmptyHeader
              ELSE HeaderSet(EmptyHeader, headerKeyContentType, ContentTypeFor(headers, default))
        isContentTypeSet == body # NilBody
        h1 == AddHeaders(h0, headers, order, isContentTypeSet)
        req == [method |-> method, url |-> url, header |-> SetBasicAuth(h1, c), body |-> enc.data]
    IN
    IF enc.err # NoErr THEN [none EXCEPT !.err = enc.err]
    ELSE IF NewRequestFails(method)
    THEN (IF body = NilBody THEN [none EXCEPT !.err = errBadMethod]
          ELSE [none EXCEPT !.panic = TRUE])
    ELSE IF t.neterr THEN [none EXCEPT !.err = errTransport, !.sent = <<req>>]
    ELSE [none EXCEPT !.sent = <<req>>]

(***************************************************************************)
(* Response handling.                                                      *)
(***************************************************************************)
\* json.NewDecoder(res.Body).Decode(resp): io.EOF on an empty body; a syntax
\* error leaves the target alone; a type error is reported after the target
\* has been filled as far as the document allowed.
Decode(body, out) ==
    CASE body.kind = "empty" -> [err |-> errEOF, out |-> out]
      [] body.kind = "syntax" -> [err |-> errSyntax, out |-> out]
      [] body.kind = "type" -> [err |-> errUnmarshalType, out |-> body.val]
      [] OTHER -> [err |-> NoErr, out |-> body.val]

\* Decode into a JSONError: the "errors" array of the document
DecodeJSONError(body) ==
    CASE body.kind = "empty" -> [err |-> errEOF, Err |-> <<>>]
      [] body.kind = "syntax" -> [err |-> errSyntax, Err |-> <<>>]
      [] body.kind = "type" -> [err |-> errUnmarshalType, Err |-> body.errs]
      [] OTHER -> [err |-> NoErr, Err |-> body.errs]

\* res.StatusCode >= 200 && res.StatusCode <= 299
IsSuccess(statusCode) == statusCode >= StatusOKLow /\ statusCode <= StatusOKHigh

\* a DecodeFailed that forgets io.EOF
DecodeFailedOnEOF(err) == err # NoErr

\* err != nil && err != io.EOF
DecodeFailed(err) == err # NoErr /\ err # errEOF

\* jsonError.Err[0].Message, replaced by r.Status when it is empty
FirstMessage(Err, status) == IF Err[1] = <<>> THEN status ELSE Err[1]

parseJSONError(r) ==
    LET d == DecodeJSONError(r.body)
    IN  IF d.err # NoErr THEN [panic |-> FALSE, err |-> d.err]
        ELSE IF Len(d.Err) = 0 THEN [panic |-> TRUE, err |-> NoErr]
        ELSE [panic |-> FALSE, err |-> JSONErrorOf(FirstMessage(d.Err, r.Status), r.StatusCode)]

\* DoWithHeaders after DoAndGetResponseBody returned r: the switch on the
\* response.  hasOut says whether resp is a non-nil pointer, out is what it
\* points at.
ParseResponse(r, hasOut, out, t) ==
    LET base == [panic |-> r.panic, err |-> r.err, sent |-> r.sent, out |-> out]
        d == Decode(t.body, out)
        e == parseJSONError(t)
    IN
    IF r.panic \/ r.err # NoErr THEN base
    ELSE IF IsSuccess(t.StatusCode)
    THEN IF ~hasOut THEN base
         ELSE [base EXCEPT !.err = IF DecodeFailed(d.err) THEN d.err ELSE NoErr, !.out = d.out]
    ELSE [base EXCEPT !.panic = e.panic, !.err = e.err]

DoWithHeaders(c, method, uri, id, params, headers, order, body, hasOut, out, t) ==
    ParseResponse(DoAndGetResponseBody(c, method, uri, id, params, headers, order, body, t),
                  hasOut, out, t)

Get(c, uri, id, params, headers, order, hasOut, out, t) ==
    DoWithHeaders(c, "GET", uri, id, params, headers, order, NilBody, hasOut, out, t)

Post(c, uri, id, params, headers, order, body, hasOut, out, t) ==
    DoWithHeaders(c, "POST", uri, id, params, headers, order, body, hasOut, out, t)

Put(c, uri, id, params, headers, order, body, hasOut, out, t) ==
    DoWithHeaders(c, "PUT", uri, id, params, headers, order, body, hasOut, out, t)

Delete(c, uri, id, params, headers, order, hasOut, out, t) ==
    DoWithHeaders(c, "DELETE", uri, id, params, headers, order, NilBody, hasOut, out, t)

Do(c, method, uri, id, params, body, hasOut, out, t) ==
    DoWithHeaders(c, method, uri, id, params, NoHeaders, <<>>, body, hasOut, out, t)

(***************************************************************************)
(* Client construction (api.New) and the accessors.                        *)
(***************************************************************************)
Digits == {"0", "3"}

DigitVal(ch) == IF ch = "0" THEN 0 ELSE 3

RECURSIVE Decimal(_)
Decimal(s) == IF s = <<>> THEN 0 ELSE Decimal(SubSeq(s, 1, Len(s) - 1)) * 10 + DigitVal(s[Len(s)])

\* strconv.ParseUint(s, 10, 8)
ParseUint8(s) ==
    IF s = <<>> \/ (\E i \in 1..Len(s) : s[i] \notin Digits)
    THEN [err |-> errParseUint, val |-> 0]
    ELSE IF Decimal(s) > Uint8Max THEN [err |-> errParseUint, val |-> 0]
    ELSE [err |-> NoErr, val |-> Decimal(s)]

\* strings.Index(s, "."), 1-based; 0 when there is none
IndexDot(s) ==
    IF \E i \in 1..Len(s) : s[i] = "."
    THEN CHOOSE i \in 1..Len(s) : s[i] = "." /\ \A j \in 1..(i - 1) : s[j] # "."
    ELSE 0

\* a MissingArgs that forgets the password
MissingHostOrUser(hostname, username, password) == hostname = <<>> \/ username = ""

\* hostname == "" || username == "" || password == ""
MissingArgs(hostname, username, password) == hostname = <<>> \/ username = "" \/ password = ""

\* err != nil && !strings.HasPrefix(err.Error(), "json: ")
ProbeFatal(err) == err # NoErr /\ ~HasPrefix(err.msg, <<"json: ">>)

\* c.apiVersion < 3
VersionTooOld(apiVersion) == apiVersion < MinAPIVersion

\* the version fields New sets from resp.Latest
ParseLatest(latest) ==
    IF latest.nil THEN [err |-> NoErr, major |-> DefaultAPIVersion, minor |-> 0]
    ELSE LET i == IndexDot(latest.s)
             mn == IF i # 0 THEN ParseUint8(SubSeq(latest.s, i + 1, Len(latest.s)))
                   ELSE [err |-> NoErr, val |-> 0]
             mj == ParseUint8(IF i # 0 THEN SubSeq(latest.s, 1, i - 1) ELSE latest.s)
         IN  IF mn.err # NoErr THEN [err |-> mn.err, major |-> 0, minor |-> 0]
             ELSE IF mj.err # NoErr THEN [err |-> mj.err, major |-> 0, minor |-> mn.val]
             ELSE [err |-> NoErr, major |-> mj.val, minor |-> mn.val]

platformLatestPath == <<"/", "platform/latest">>

\* New after the probe returned r and resp.Latest was parsed to v
NewClient(c, r, v) ==
    LET fail(e) == [client |-> NoClient, err |-> e, sent |-> r.sent, panic |-> FALSE] IN
    IF r.panic THEN [client |-> NoClient, err |-> NoErr, sent |-> r.sent, panic |-> TRUE]
    ELSE IF ProbeFatal(r.err) THEN fail(r.err)
    ELSE IF v.err # NoErr THEN fail(v.err)
    ELSE IF VersionTooOld(v.major) THEN fail(errOldRelease)
    ELSE [client |-> [c EXCEPT !.apiVersion = v.major, !.apiMinorVersion = v.minor],
          err |-> NoErr, sent |-> r.sent, panic |-> FALSE]

Probed(c, r) == NewClient(c, r, ParseLatest(r.out.Latest))

Probe(c, t) == Probed(c, Get(c, platformLatestPath, <<>>, <<>>, NoHeaders, <<>>, TRUE, [Latest |-> NilString], t))

New(hostname, username, password, groupname, optsVolumesPath, t) ==
    IF MissingArgs(hostname, username, password)
    THEN [client |-> NoClient, err |-> errNewClient, sent |-> <<>>, panic |-> FALSE]
    ELSE Probe([hostname |-> hostname, username |-> username, groupname |-> groupname,
                password |-> password,
                volumePath |-> IF optsVolumesPath # "" THEN optsVolumesPath ELSE defaultVolumesPath,
                apiVersion |-> 0, apiMinorVersion |-> 0], t)

\* the facade's constructor hands its arguments to api.New
NewClientWithArgs(endpoint, user, group, pass, volumesPath, t) ==
    New(endpoint, user, pass, group, volumesPath, t)

APIVersion(c) == c.apiVersion
User(c) == c.username
Group(c) == c.groupname
VolumesPath(c) == c.volumePath

\* path.Join(c.volumePath, volumeName): empty elements are dropped
VolumePath(c, volumeName) == IF volumeName = "" THEN <<c.volumePath>> ELSE <<c.volumePath, volumeName>>

(***************************************************************************)
(* Snapshots (snapshots.go).  api.GetIsiSnapshot and api.GetIsiSnapshots   *)
(* are one GET each against the snapshots endpoint.                        *)
(***************************************************************************)
snapshotsPath == <<"platform/1/snapshot/snapshots">>

NilSnapshot == [nil |-> TRUE, Id |-> 0, Name |-> ""]

\* GET snapshots/<id>: the snapshot is the first entry of the list returned
FirstOfList(r) ==
    [panic |-> r.panic, err |-> r.err, sent |-> r.sent,
     out |-> IF r.panic \/ r.err # NoErr \/ r.out = <<>> THEN NilSnapshot ELSE r.out[1]]

GetIsiSnapshot(c, id, t) == FirstOfList(Get(c, snapshotsPath, <<ToString(id)>>, <<>>, NoHeaders, <<>>, TRUE, <<>>, t))

\* GET snapshots: the whole list
GetIsiSnapshots(c, t) == Get(c, snapshotsPath, <<>>, <<>>, NoHeaders, <<>>, TRUE, <<>>, t)

\* if err != nil { return nil, err }; return snapshots.SnapshotList, nil
ListOrNil(r) == IF r.err # NoErr THEN [r EXCEPT !.out = <<>>] ELSE r

GetSnapshots(c, t) == ListOrNil(GetIsiSnapshots(c, t))

\* for _, snapshot = range snapshotList { if snapshot.Name == name { return } }
FirstByName(snapshotList, name) ==
    IF \E i \in 1..Len(snapshotList) : snapshotList[i].Name = name
    THEN snapshotList[CHOOSE i \in 1..Len(snapshotList) :
                         /\ snapshotList[i].Name = name
                         /\ \A j \in 1..(i - 1) : snapshotList[j].Name # name]
    ELSE NilSnapshot

\* a NoFallback that lists the snapshots whatever the name
NoFallbackNever(name) == FALSE

\* if name == "" { return nil, err }
NoFallback(name) == name = ""

\* GetSnapshot after the listing returned r2
MatchByName(r1, name, r2) ==
    IF r2.panic \/ r2.err # NoErr
    THEN [panic |-> r2.panic, err |-> r2.err, sent |-> r1.sent \o r2.sent, out |-> NilSnapshot]
    ELSE [panic |-> FALSE, err |-> NoErr, sent |-> r1.sent \o r2.sent,
          out |-> FirstByName(r2.out, name)]

\* GetSnapshot after the lookup by id returned r1
AfterIdLookup(c, name, t2, r1) ==
    IF r1.panic \/ r1.err = NoErr THEN r1
    ELSE IF NoFallback(name) THEN [r1 EXCEPT !.out = NilSnapshot]
    ELSE MatchByName(r1, name, GetSnapshots(c, t2))

GetSnapshot(c, id, name, t1, t2) == AfterIdLookup(c, name, t2, GetIsiSnapshot(c, id, t1))

\* api.RemoveIsiSnapshot: one DELETE of snapshots/<id>
RemoveIsiSnapshot(c, id, t) ==
    Delete(c, snapshotsPath, <<ToString(id)>>, <<>>, NoHeaders, <<>>, FALSE, <<>>, t)

\* RemoveSnapshot after the delete call returned r2; out keeps the snapshot
\* that GetSnapshot returned
Removed(r1, r2) == [panic |-> r2.panic, err |-> r2.err, sent |-> r1.sent \o r2.sent, out |-> r1.out]

\* RemoveSnapshot after GetSnapshot returned r1: snapshot.Id is read through
\* the pointer returned, which is nil when no snapshot has the name
RemoveFound(c, t3, r1) ==
    IF r1.panic \/ r1.err # NoErr THEN r1
    ELSE IF r1.out.nil THEN [r1 EXCEPT !.panic = TRUE]
    ELSE Removed(r1, RemoveIsiSnapshot(c, r1.out.Id, t3))

RemoveSnapshot(c, id, name, t1, t2, t3) == RemoveFound(c, t3, GetSnapshot(c, id, name, t1, t2))

(***************************************************************************)
(* Quotas (api/v1 GetIsiQuota and the facade's GetQuota).                  *)
(***************************************************************************)
quotaPath == <<"platform/1/quota/quotas">>

NilQuota == [nil |-> TRUE, Id |-> "", Path |-> <<>>]

errQuotaNotFound(path) == [kind |-> "errors.New", msg |-> <<"Quota not found: ">> \o path, code |-> 0]

\* a QuotaMatches that takes the first quota listed
QuotaMatchesAny(quota, path) == TRUE

\* quota.Path == path
QuotaMatches(quota, path) == quota.Path = path

\* GetIsiQuota after the list request returned r
FindQuota(r, path) ==
    LET hit == {i \in 1..Len(r.out) : QuotaMatches(r.out[i], path)}
    IN
    IF r.panic \/ r.err # NoErr THEN [r EXCEPT !.out = NilQuota]
    ELSE IF hit # {} THEN [r EXCEPT !.out = r.out[CHOOSE i \in hit : \A j \in hit : i <= j]]
    ELSE [r EXCEPT !.err = errQuotaNotFound(path), !.out = NilQuota]

GetIsiQuota(c, path, t) ==
    FindQuota(Get(c, quotaPath, <<>>, << <<"path", path>> >>, NoHeaders, <<>>, TRUE, <<>>, t), path)

GetQuota(c, name, t) == GetIsiQuota(c, VolumePath(c, name), t)

(***************************************************************************)
(* Volumes (api/v1 CreateIsiVolume, CreateIsiVolumeWithACL).               *)
(***************************************************************************)
defaultACL == "public_read_write"
\* var resp *getIsiVolumesResp
NilVolumesResp == [nil |-> TRUE, v |-> ""]
aclQS == << <<"acl">> >>

\* path.Join(namespacePath, client.VolumesPath())
realNamespacePath(c) == <<"namespace", VolumesPath(c)>>

createVolumeHeaders(ACL) ==
    [k \in WrapperHeaderKeys |-> IF k = "x-isi-ifs-target-type" THEN <<"container">> ELSE <<ACL>>]

NilOwnership == [nil |-> TRUE, name |-> "", type |-> ""]
Ownership(name, type) == [nil |-> FALSE, name |-> name, type |-> type]

\* the AclRequest sent by the second call
AclRequestFor(c) ==
    [authoritative |-> "acl", action |-> "update", owner |-> Ownership(User(c), "user"),
     group |-> IF Group(c) # "" THEN Ownership(Group(c), "group") ELSE NilOwnership]

\* a CreateFailed that goes on to the ownership call whatever happened
CreateNeverFailed(r) == FALSE

\* if err != nil { return resp, err } after the create call
CreateFailed(r) == r.err # NoErr

\* the requests of both calls, in the order they were sent
Both(r1, r2) == [r2 EXCEPT !.sent = r1.sent \o r2.sent]

\* CreateIsiVolumeWithACL after the create call returned r1
SetOwnership(c, id, t2, r1) ==
    IF r1.panic \/ CreateFailed(r1) THEN r1
    ELSE Both(r1, Put(c, realNamespacePath(c), id, aclQS, NoHeaders, <<>>,
                      [kind |-> "value", data |-> AclRequestFor(c)], TRUE, r1.out, t2))

CreateIsiVolumeWithACL(c, name, ACL, order, t1, t2) ==
    SetOwnership(c, IF name = "" THEN <<>> ELSE <<name>>, t2,
                 Put(c, realNamespacePath(c), IF name = "" THEN <<>> ELSE <<name>>, <<>>,
                     createVolumeHeaders(ACL), order, NilBody, TRUE, NilVolumesResp, t1))

CreateIsiVolume(c, name, order, t1, t2) == CreateIsiVolumeWithACL(c, name, defaultACL, order, t1, t2)

(***************************************************************************)
(* What the appliance and the transport may answer.                        *)
(***************************************************************************)
Messages == {<<>>, <<"no such resource">>, <<"json: ", "from the appliance">>}

ErrLists == SeqsUpTo(Messages, MaxErrs)

Statuses == {[StatusCode |-> 200, Status |-> <<"200 OK">>],
             [StatusCode |-> 299, Status |-> <<"299 ">>],
             [StatusCode |-> 199, Status |-> <<"199 ">>],
             [StatusCode |-> 300, Status |-> <<"300 Multiple Choices">>],
             [StatusCode |-> 404, Status |-> <<"404 Not Found">>]}

\* the bodies a response may carry, given the values a well-formed document
\* may decode to
Bodies(vals, dflt) ==
    {[kind |-> k, val |-> dflt, errs |-> <<>>] : k \in {"empty", "syntax"}}
    \cup {[kind |-> k, val |-> v, errs |-> <<>>] : k \in {"json", "type"}, v \in vals}
    \cup {[kind |-> k, val |-> dflt, errs |-> e] : k \in {"json", "type"}, e \in ErrLists}

Response(st, body) == [neterr |-> FALSE, StatusCode |-> st.StatusCode, Status |-> st.Status, body |-> body]

Outcomes(vals, dflt) ==
    {[neterr |-> TRUE, StatusCode |-> 0, Status |-> <<>>,
      body |-> [kind |-> "empty", val |-> dflt, errs |-> <<>>]]}
    \cup {Response(st, b) : st \in Statuses, b \in Bodies(vals, dflt)}

(***************************************************************************)
(* Inputs of the calls.                                                    *)
(***************************************************************************)
Hostnames == {<<>>, <<"h">>, <<"h", "/">>}
Usernames == {"", "admin"}
Passwords == {"", "secret"}
Groupnames == {"", "wheel"}
VolumesPathOpts == {"", "/ifs/custom"}

LatestChars == {"0", "3", ".", "x"}
LatestVals == {[Latest |-> NilString]}
              \cup {[Latest |-> StringPtr(s)] : s \in SeqsUpTo(LatestChars, MaxLatestLen)}

UriChars == {"/", "a"}
IdChars == {"/", "b"}
Uris == SeqsUpTo(UriChars, MaxUriLen)
Ids == SeqsUpTo(IdChars, MaxIdLen)
ParamSets == {<<>>, << <<"acl">> >>, << <<"path", <<"p">> >>, <<"path", <<"q">> >> >>}

Methods == ValidMethods \cup {"BAD METHOD"}
BodyVals == {NilBody, [kind |-> "stream", data |-> [v |-> "bytes"]],
             [kind |-> "value", data |-> [v |-> "struct"]],
             [kind |-> "unencodable", data |-> [v |-> "chan"]]}
HeaderVals == {<<"text/plain">>, <<"Basic", "mallory", ":", "guess">>}
HeaderMaps == UNION {[D -> HeaderVals] : D \in SUBSET CallerHeaderKeys}
\* a caller's header map together with an order in which range may visit it
HeaderRanges == UNION {{[headers |-> h, order |-> o] : o \in Perms(DOMAIN h)} : h \in HeaderMaps}

\* the value a generic caller's output points at, and those a reply decodes to
OutBefore == [v |-> "before"]
OutVals == {[v |-> "before"], [v |-> "decoded"]}

OKResponse ==
    Response([StatusCode |-> 200, Status |-> <<"200 OK">>], [kind |-> "json", val |-> [v |-> "decoded"], errs |-> <<>>])

BaseInput ==
    [method |-> "GET", uri |-> <<"a">>, id |-> <<>>, params |-> <<>>, headers |-> NoHeaders,
     order |-> <<>>, body |-> NilBody, hasOut |-> TRUE, t |-> OKResponse]

\* inputs that vary the URL, the headers and body, and the reply, in turn
UrlInputs == {[BaseInput EXCEPT !.uri = u, !.id = i, !.params = p] : u \in Uris, i \in Ids, p \in ParamSets}
HeaderInputs ==
    {[BaseInput EXCEPT !.method = m, !.headers = hr.headers, !.order = hr.order, !.body = b] :
        m \in Methods, hr \in HeaderRanges, b \in BodyVals}
ReplyInputs == {[BaseInput EXCEPT !.hasOut = ho, !.t = t] : ho \in BOOLEAN, t \in Outcomes(OutVals, OutBefore)}
Inputs == UrlInputs \cup HeaderInputs \cup ReplyInputs

\* the replies the resource wrappers are run against
WrapperOutcomes(vals, dflt) ==
    {[neterr |-> TRUE, StatusCode |-> 0, Status |-> <<>>,
      body |-> [kind |-> "empty", val |-> dflt, errs |-> <<>>]]}
    \cup {Response([StatusCode |-> 200, Status |-> <<"200 OK">>], [kind |-> "json", val |-> v, errs |-> <<>>]) :
             v \in vals}
    \cup {Response([StatusCode |-> 200, Status |-> <<"200 OK">>], [kind |-> k, val |-> dflt, errs |-> <<>>]) :
             k \in {"empty", "syntax"}}
    \cup {Response([StatusCode |-> 404, Status |-> <<"404 Not Found">>],
                   [kind |-> "json", val |-> dflt, errs |-> <<m>>]) : m \in Messages \ {<<>>}}

SnapIds == {1, 2}
SnapNames == {"snapA", "snapB"}
Snapshots == {[nil |-> FALSE, Id |-> i, Name |-> n] : i \in SnapIds, n \in SnapNames}
SnapshotLists == SeqsUpTo(Snapshots, MaxList)
\* a lookup by id that succeeds is answered with a list of one snapshot
OneSnapshotLists == {<<sn>> : sn \in Snapshots}
IdLookupOutcomes ==
    {t \in WrapperOutcomes(OneSnapshotLists, <<>>) : t.neterr \/ t.StatusCode # 200 \/ t.body.kind # "empty"}

\* the replies to the delete request of RemoveSnapshot
DeleteOutcomes == WrapperOutcomes({<<>>}, <<>>)

VolumeNames == {"", "vol1", "vol2"}
QuotaIds == {"q1", "q2"}
QuotaPaths == {<<defaultVolumesPath, "vol1">>, <<"/ifs/custom", "vol1">>}
Quotas == {[nil |-> FALSE, Id |-> i, Path |-> p] : i \in QuotaIds, p \in QuotaPaths}
QuotaLists == SeqsUpTo(Quotas, MaxList)

ACLs == {defaultACL, "private_read"}
VolumeResps == {[nil |-> FALSE, v |-> "volumes"]}

\* the arguments of New with a few replies to the probe, and every reply to the
\* probe with one set of arguments
ProbeReply(latest) ==
    Response([StatusCode |-> 200, Status |-> <<"200 OK">>], [kind |-> "json", val |-> latest, errs |-> <<>>])

ConfigInputs ==
    {[hostname |-> h, username |-> u, password |-> pw, groupname |-> g, volumesPath |-> vp, t |-> t] :
        h \in Hostnames, u \in Usernames, pw \in Passwords, g \in Groupnames, vp \in VolumesPathOpts,
        t \in {ProbeReply([Latest |-> StringPtr(<<"3">>)]), ProbeReply([Latest |-> NilString])}}
ProbeInputs ==
    {[hostname |-> <<"h">>, username |-> "admin", password |-> "secret", groupname |-> "",
      volumesPath |-> "", t |-> t] : t \in Outcomes(LatestVals, [Latest |-> NilString])}
NewInputs == ConfigInputs \cup ProbeInputs

NoArgs == [none |-> TRUE]

\* goroutines that share one client, and what each holds on its stack
Goroutines == 1..MaxGoroutines
NoCall == [pc |-> "idle", op |-> "", method |-> "", uri |-> <<>>, id |-> <<>>, ubf |-> <<>>,
           header |-> EmptyHeader, val |-> <<>>, num |-> 0]
NoCalls == [g \in Goroutines |-> NoCall]
NoRet == [panic |-> FALSE, err |-> NoErr, val |-> Nil]

\* No client has been constructed and no call is in progress.
Init ==
    /\ client = NoClient
    /\ op = "idle"
    /\ args = NoArgs
    /\ sent = <<>>
    /\ ret = NoRet
    /\ calls = NoCalls

\* The caller has taken the result of the last call; a panic ends the program.
Return ==
    /\ op # "idle"
    /\ ~ret.panic
    /\ op' = "idle"
    /\ args' = NoArgs
    /\ sent' = <<>>
    /\ ret' = NoRet
    /\ UNCHANGED <<client, calls>>

CallNew ==
    /\ op = "idle"
    /\ client = NoClient
    /\ \E in \in NewInputs :
          LET r == New(in.hostname, in.username, in.password, in.groupname, in.volumesPath, in.t) IN
          /\ client' = r.client
          /\ op' = "New"
          /\ args' = in
          /\ sent' = r.sent
          /\ ret' = [panic |-> r.panic, err |-> r.err, val |-> r.client]
          /\ UNCHANGED calls

CallNewClientWithArgs ==
    /\ op = "idle"
    /\ client = NoClient
    /\ \E in \in ConfigInputs :
          LET r == NewClientWithArgs(in.hostname, in.username, in.groupname, in.password,
                                     in.volumesPath, in.t) IN
          /\ client' = r.client
          /\ op' = "NewClientWithArgs"
          /\ args' = in
          /\ sent' = r.sent
          /\ ret' = [panic |-> r.panic, err |-> r.err, val |-> r.client]
          /\ UNCHANGED calls

\* the state after a call of the generic client returned r
Called(name, in, r) ==
    /\ op' = name
    /\ args' = in
    /\ sent' = r.sent
    /\ ret' = [panic |-> r.panic, err |-> r.err, val |-> r.out]
    /\ UNCHANGED <<client, calls>>

CallDoWithHeaders ==
    /\ op = "idle"
    /\ client # NoClient
    /\ \E in \in Inputs :
          Called("DoWithHeaders", in,
                 DoWithHeaders(client, in.method, in.uri, in.id, in.params, in.headers, in.order,
                               in.body, in.hasOut, OutBefore, in.t))

CallDo ==
    /\ op = "idle"
    /\ client # NoClient
    /\ \E in \in HeaderInputs :
          /\ in.headers = NoHeaders
          /\ Called("Do", in,
                    Do(client, in.method, in.uri, in.id, in.params, in.body, in.hasOut, OutBefore, in.t))

CallGet ==
    /\ op = "idle"
    /\ client # NoClient
    /\ \E in \in HeaderInputs :
          /\ in.method = "GET"
          /\ in.body = NilBody
          /\ Called("Get", in,
                    Get(client, in.uri, in.id, in.params, in.headers, in.order, in.hasOut, OutBefore, in.t))

CallDelete ==
    /\ op = "idle"
    /\ client # NoClient
    /\ \E in \in HeaderInputs :
          /\ in.method = "DELETE"
          /\ in.body = NilBody
          /\ Called("Delete", in,
                    Delete(client, in.uri, in.id, in.params, in.headers, in.order, in.hasOut, OutBefore, in.t))

CallPost ==
    /\ op = "idle"
    /\ client # NoClient
    /\ \E in \in HeaderInputs :
          /\ in.method = "POST"
          /\ Called("Post", in,
                    Post(client, in.uri, in.id, in.params, in.headers, in.order, in.body,
                         in.hasOut, OutBefore, in.t))

CallPut ==
    /\ op = "idle"
    /\ client # NoClient
    /\ \E in \in HeaderInputs :
          /\ in.method = "PUT"
          /\ Called("Put", in,
                    Put(client, in.uri, in.id, in.params, in.headers, in.order, in.body,
                        in.hasOut, OutBefore, in.t))

\* the state after a call of a resource wrapper returned r
Wrapped(name, in, r) ==
    /\ op' = name
    /\ args' = in
    /\ sent' = r.sent
    /\ ret' = [panic |-> r.panic, err |-> r.err, val |-> r.out]
    /\ UNCHANGED <<client, calls>>

\* the returned pointer, by its type
AsSnapshot(r) == [r EXCEPT !.out = [snapshot |-> r.out]]
AsQuota(r) == [r EXCEPT !.out = [quota |-> r.out]]

CallGetSnapshot ==
    /\ op = "idle"
    /\ client # NoClient
    /\ \E id \in SnapIds, name \in SnapNames \cup {""},
          t1 \in IdLookupOutcomes, t2 \in WrapperOutcomes(SnapshotLists, <<>>) :
          Wrapped("GetSnapshot", [id |-> id, name |-> name, t1 |-> t1, t2 |-> t2],
                  AsSnapshot(GetSnapshot(client, id, name, t1, t2)))

CallRemoveSnapshot ==
    /\ op = "idle"
    /\ client # NoClient
    /\ \E id \in SnapIds, name \in SnapNames \cup {""},
          t1 \in IdLookupOutcomes, t2 \in WrapperOutcomes(SnapshotLists, <<>>), t3 \in DeleteOutcomes :
          Wrapped("RemoveSnapshot", [id |-> id, name |-> name, t1 |-> t1, t2 |-> t2, t3 |-> t3],
                  AsSnapshot(RemoveSnapshot(client, id, name, t1, t2, t3)))

CallGetIsiQuota ==
    /\ op = "idle"
    /\ client # NoClient
    /\ \E path \in QuotaPaths \cup {<<defaultVolumesPath, "vol2">>}, t \in WrapperOutcomes(QuotaLists, <<>>) :
          Wrapped("GetIsiQuota", [path |-> path, t |-> t], AsQuota(GetIsiQuota(client, path, t)))

CallGetQuota ==
    /\ op = "idle"
    /\ client # NoClient
    /\ \E name \in VolumeNames, t \in WrapperOutcomes(QuotaLists, <<>>) :
          Wrapped("GetQuota", [name |-> name, path |-> VolumePath(client, name), t |-> t],
                  AsQuota(GetQuota(client, name, t)))

CallCreateIsiVolumeWithACL ==
    /\ op = "idle"
    /\ client # NoClient
    /\ \E name \in VolumeNames, ACL \in ACLs, order \in Perms(WrapperHeaderKeys),
          t1 \in WrapperOutcomes(VolumeResps, NilVolumesResp), t2 \in WrapperOutcomes(VolumeResps, NilVolumesResp) :
          Wrapped("CreateIsiVolumeWithACL",
                  [name |-> name, ACL |-> ACL, order |-> order, t1 |-> t1, t2 |-> t2],
                  CreateIsiVolumeWithACL(client, name, ACL, order, t1, t2))

CallCreateIsiVolume ==
    /\ op = "idle"
    /\ client # NoClient
    /\ \E name \in VolumeNames, order \in Perms(WrapperHeaderKeys),
          t1 \in WrapperOutcomes(VolumeResps, NilVolumesResp), t2 \in WrapperOutcomes(VolumeResps, NilVolumesResp) :
          Wrapped("CreateIsiVolume",
                  [name |-> name, ACL |-> defaultACL, order |-> order, t1 |-> t1, t2 |-> t2],
                  CreateIsiVolume(client, name, order, t1, t2))

Next ==
    \/ CallGetSnapshot
    \/ CallRemoveSnapshot
    \/ CallGetIsiQuota
    \/ CallGetQuota
    \/ CallCreateIsiVolumeWithACL
    \/ CallCreateIsiVolume
    \/ CallNew
    \/ CallNewClientWithArgs
    \/ Return
    \/ CallDoWithHeaders
    \/ CallDo
    \/ CallGet
    \/ CallDelete
    \/ CallPost
    \/ CallPut

Spec == Init /\ [][Next]_vars

(***************************************************************************)
(* Concurrent calls on a shared client.  Each goroutine makes one call; a  *)
(* call of the generic client is a sequence of steps, one for each place   *)
(* where it touches the client: the hostname (URL assembly), the           *)
(* credentials (SetBasicAuth), the transport (c.http.Do).  An accessor is  *)
(* one read.                                                               *)
(***************************************************************************)
GenericOps == {"DoWithHeaders", "Do", "Get", "Delete", "Post", "Put"}
AccessorOps == {"APIVersion", "User", "Group", "VolumesPath", "VolumePath"}

\* the method a call sends; Do and DoWithHeaders take it from the caller
MethodsOf(name) ==
    CASE name = "Get" -> {"GET"}
      [] name = "Post" -> {"POST"}
      [] name = "Put" -> {"PUT"}
      [] name = "Delete" -> {"DELETE"}
      [] OTHER -> {"GET", "PUT"}

\* api.New has just returned a client (ret.val), and no goroutine has called
\* it yet.
InitShared ==
    \E in \in ConfigInputs :
       LET r == New(in.hostname, in.username, in.password, in.groupname, in.volumesPath, in.t) IN
       /\ r.client # NoClient
       /\ client = r.client
       /\ op = "New"
       /\ args = in
       /\ sent = r.sent
       /\ ret = [panic |-> r.panic, err |-> r.err, val |-> r.client]
       /\ calls = NoCalls

\* goroutine g enters Get, Post, Put, Delete, Do or DoWithHeaders
Begin(g) ==
    /\ calls[g].pc = "idle"
    /\ \E name \in GenericOps :
          \E method \in MethodsOf(name) :
             calls' = [calls EXCEPT ![g] = [@ EXCEPT !.pc = "url", !.op = name, !.method = method,
                                                     !.uri = <<"a">>, !.id = <<"b">>]]
    /\ UNCHANGED <<client, op, args, sent, ret>>

\* ubf.WriteString(c.hostname) and the rest of the URL
WriteURL(g) ==
    /\ calls[g].pc = "url"
    /\ LET w == WriteHostname(client, calls[g].uri, calls[g].id) IN
          /\ client' = w.c
          /\ calls' = [calls EXCEPT ![g] = [@ EXCEPT !.pc = "auth",
                                                    !.ubf = w.ubf \o UriPart(calls[g].uri) \o IdPart(calls[g].id)]]
    /\ UNCHANGED <<op, args, sent, ret>>

\* req.SetBasicAuth(c.username, c.password)
Authenticate(g) ==
    /\ calls[g].pc = "auth"
    /\ calls' = [calls EXCEPT ![g] = [@ EXCEPT !.pc = "send", !.header = SetBasicAuth(EmptyHeader, client)]]
    /\ UNCHANGED <<client, op, args, sent, ret>>

\* c.http.Do(req); the call returns with what DoWithHeaders makes of the reply
Send(g) ==
    /\ calls[g].pc = "send"
    /\ sent' = Append(sent, [method |-> calls[g].method, url |-> calls[g].ubf,
                             header |-> calls[g].header, body |-> NilBody])
    /\ calls' = [calls EXCEPT ![g] = [@ EXCEPT !.pc = "done"]]
    /\ UNCHANGED <<client, op, args, ret>>

\* goroutine g calls an accessor, which returns the field
ReadField(g) ==
    /\ calls[g].pc = "idle"
    /\ \E name \in AccessorOps :
          calls' = [calls EXCEPT ![g] =
                       [@ EXCEPT !.pc = "done", !.op = name,
                                 !.num = IF name = "APIVersion" THEN APIVersion(client) ELSE 0,
                                 !.val = CASE name = "User" -> <<User(client)>>
                                           [] name = "Group" -> <<Group(client)>>
                                           [] name = "VolumesPath" -> <<VolumesPath(client)>>
                                           [] name = "VolumePath" -> VolumePath(client, "vol1")
                                           [] OTHER -> <<>>]]
    /\ UNCHANGED <<client, op, args, sent, ret>>

NextShared ==
    \E g \in Goroutines :
       \/ Begin(g)
       \/ WriteURL(g)
       \/ Authenticate(g)
       \/ Send(g)
       \/ ReadField(g)

SpecShared == InitShared /\ [][NextShared]_vars

(***************************************************************************)
(* Properties.                                                             *)
(***************************************************************************)
StripL(s) == IF s # <<>> /\ s[1] = "/" THEN SubSeq(s, 2, Len(s)) ELSE s
StripR(s) == IF s # <<>> /\ s[Len(s)] = "/" THEN SubSeq(s, 1, Len(s) - 1) ELSE s

\* s is a name with at most one slash before and at most one after it
Bare(s) == s # <<>> /\ s[1] # "/" /\ s[Len(s)] # "/"

\* the URL of a request up to its query
PathOf(url, params) == SubSeq(url, 1, Len(url) - Len(QueryPart(params)))

\* the reply to the single request of a generic call was received
Replied == Len(sent) = 1 /\ ~args.t.neterr

\* C1: for every hostname, path and id, with or without leading and trailing
\* slashes, the URL of the request has exactly one "/" between hostname and path
\* and exactly one between path and id.  (Stated here for non-empty paths and
\* ids only; an empty path does not reach URL assembly at all, see UrlFlagsPanic.)
C1_ExactlyOneSlashAtBoundaries ==
    (/\ op \in GenericOps
     /\ Len(sent) = 1
     /\ Bare(StripR(StripL(args.uri)))
     /\ Bare(StripL(args.id)))
    => PathOf(sent[1].url, args.params)
         = StripR(client.hostname) \o <<"/">> \o StripR(StripL(args.uri)) \o <<"/">> \o StripL(args.id)

\* C2: every response with a status outside 200-299 makes DoWithHeaders return
\* an error whose message is the message of the first entry of the error list,
\* or the status text when that message is empty, for every well-formed body,
\* one with an empty or absent error list included.
C2_NonSuccessYieldsFirstMessage ==
    (/\ op \in GenericOps
     /\ Replied
     /\ ~IsSuccess(args.t.StatusCode)
     /\ args.t.body.kind = "json")
    => /\ ~ret.panic
       /\ ret.err.kind = "JSONError"
       /\ ret.err.msg = IF args.t.body.errs # <<>> /\ args.t.body.errs[1] # <<>>
                        THEN args.t.body.errs[1] ELSE args.t.Status

\* C3: a reply with a status in 200-299 and an empty body, to a call that
\* passed a non-nil output pointer, makes the call return no error and leaves
\* the output as it was.
C3_EmptyBodyLeavesOutput ==
    (/\ op \in GenericOps
     /\ Replied
     /\ args.t.StatusCode >= 200 /\ args.t.StatusCode <= 299
     /\ args.t.body.kind = "empty"
     /\ args.hasOut)
    => /\ ~ret.panic
       /\ ret.err = NoErr
       /\ ret.val = OutBefore

C3_Witness ==
    /\ op = "DoWithHeaders"
    /\ Replied
    /\ args.t.StatusCode = 299
    /\ args.t.body.kind = "empty"
    /\ args.hasOut
    /\ ret.err = NoErr

\* the reply t carried a document that decoded without error
Answered(t) == ~t.neterr /\ t.StatusCode >= 200 /\ t.StatusCode <= 299 /\ t.body.kind = "json"

\* the error a call returns for a reply t that is not Answered and not empty
FailureOf(t) ==
    IF t.neterr THEN errTransport
    ELSE IF t.StatusCode >= 200 /\ t.StatusCode <= 299 THEN errSyntax
    ELSE JSONErrorOf(t.body.errs[1], t.StatusCode)

\* the list a listing reply decodes to
ListOf(t) == IF t.body.kind = "json" THEN t.body.val ELSE <<>>

\* the URL of resource uri (and id, when not empty) on the client's host
UrlOf(uri, id) == StripR(client.hostname) \o <<"/">> \o uri \o <<"/">> \o id

\* C4: GetSnapshot looks the snapshot up by id first and returns it when that
\* succeeds; when the lookup fails and the name is not empty it lists all
\* snapshots and returns the first with that name; when the lookup fails and
\* the name is empty it returns the lookup's error and sends no listing request.
C4_IdFirstThenName ==
    op = "GetSnapshot" =>
       /\ ~ret.panic
       /\ Len(sent) >= 1
       /\ sent[1].method = "GET"
       /\ sent[1].url = UrlOf(snapshotsPath, <<ToString(args.id)>>)
       /\ Answered(args.t1) =>
             /\ Len(sent) = 1
             /\ ret.err = NoErr
             /\ ret.val.snapshot = args.t1.body.val[1]
       /\ (~Answered(args.t1) /\ args.name = "") =>
             /\ Len(sent) = 1
             /\ ret.err = FailureOf(args.t1)
             /\ ret.val.snapshot = NilSnapshot
       /\ (~Answered(args.t1) /\ args.name # "") =>
             /\ Len(sent) = 2
             /\ sent[2].method = "GET"
             /\ sent[2].url = UrlOf(snapshotsPath, <<>>)
             /\ (~args.t2.neterr /\ args.t2.StatusCode = 200 /\ args.t2.body.kind # "syntax") =>
                   LET L == ListOf(args.t2)
                       named == {i \in 1..Len(L) : L[i].Name = args.name}
                   IN  /\ ret.err = NoErr
                       /\ IF named = {} THEN ret.val.snapshot = NilSnapshot
                          ELSE \E i \in named : /\ ret.val.snapshot = L[i]
                                                /\ \A j \in named : i <= j

\* the id lookup failed and the second of two listed snapshots was found by name
C4_Witness ==
    /\ op = "GetSnapshot"
    /\ ~Answered(args.t1)
    /\ Len(sent) = 2
    /\ Len(ListOf(args.t2)) = 2
    /\ ListOf(args.t2)[1].Name # args.name
    /\ ~ret.val.snapshot.nil
    /\ ret.val.snapshot = ListOf(args.t2)[2]

\* C5: when the list request succeeds, GetIsiQuota returns a listed quota whose
\* Path is the queried path if there is one, and a "Quota not found" error and
\* no quota otherwise; it never returns a quota with another Path.
C5_QuotaByPath ==
    op \in {"GetIsiQuota", "GetQuota"} =>
       /\ ~ret.panic
       /\ ~ret.val.quota.nil => ret.val.quota.Path = args.path
       /\ (~args.t.neterr /\ args.t.StatusCode = 200 /\ args.t.body.kind # "syntax") =>
             LET L == ListOf(args.t)
                 hit == {i \in 1..Len(L) : L[i].Path = args.path}
             IN  IF hit = {}
                 THEN ret.err = errQuotaNotFound(args.path) /\ ret.val.quota = NilQuota
                 ELSE /\ ret.err = NoErr
                      /\ \E i \in hit : ret.val.quota = L[i]

\* the first quota listed has another path and the second is returned
C5_Witness ==
    /\ op = "GetIsiQuota"
    /\ Len(ListOf(args.t)) = 2
    /\ ListOf(args.t)[1].Path # args.path
    /\ ret.err = NoErr
    /\ ret.val.quota = ListOf(args.t)[2]

Constructors == {"New", "NewClientWithArgs"}

\* the version probe was sent
Probing == op \in Constructors /\ Len(sent) = 1

\* the probe's reply was read as far as a version: a document whose "latest"
\* field holds a major version, possibly followed by a minor one
ReportedMajor(t) ==
    IF ~t.neterr /\ IsSuccess(t.StatusCode) /\ t.body.kind \in {"json", "type"}
       /\ ~t.body.val.Latest.nil /\ ParseLatest(t.body.val.Latest).err = NoErr
    THEN ParseLatest(t.body.val.Latest).major
    ELSE -1

\* the probe failed, and not in decoding the reply
ProbeFailedOtherwise(t) == t.neterr \/ (~IsSuccess(t.StatusCode) /\ t.body.kind = "json")

\* the probe failed in decoding the reply, and only so
ProbeFailedDecoding(t) == ~t.neterr /\ IsSuccess(t.StatusCode) /\ t.body.kind \in {"syntax", "type"}

DecodeErrors == {errSyntax, errUnmarshalType}

\* C6: construction fails whenever the reported major version is below 3, and
\* whenever the probe fails with an error that is not a JSON decode error; a
\* probe that fails only with a JSON decode error does not by itself make
\* construction fail (if it fails, then not with the decode error).
C6_ProbeDecidesConstruction ==
    Probing =>
       /\ (ReportedMajor(args.t) >= 0 /\ ReportedMajor(args.t) < 3) =>
             client = NoClient /\ ret.err # NoErr
       /\ ProbeFailedOtherwise(args.t) => client = NoClient /\ (ret.err # NoErr \/ ret.panic)
       /\ ProbeFailedDecoding(args.t) => ret.err \notin DecodeErrors

\* C7: CreateIsiVolumeWithACL sends the create PUT first and the ownership PUT
\* (?acl) second, the second only if the first succeeded; it returns an error
\* if either fails; and no further request follows a failed ownership call.
C7_CreateThenOwnership ==
    op \in {"CreateIsiVolumeWithACL", "CreateIsiVolume"} =>
       LET id == IF args.name = "" THEN <<>> ELSE <<args.name>>
           created == ~args.t1.neterr /\ args.t1.StatusCode = 200 /\ args.t1.body.kind # "syntax"
           owned == ~args.t2.neterr /\ args.t2.StatusCode = 200 /\ args.t2.body.kind # "syntax"
       IN  /\ ~ret.panic
           /\ Len(sent) = IF created THEN 2 ELSE 1
           /\ \A i \in 1..Len(sent) : sent[i].method = "PUT"
           /\ sent[1].url = UrlOf(realNamespacePath(client), id)
           /\ sent[1].body = NilBody
           /\ created => /\ sent[2].url = UrlOf(realNamespacePath(client), id) \o <<"?", "acl">>
                         /\ sent[2].body.kind = "json"
           /\ (ret.err = NoErr) <=> (created /\ owned)

\* the volume was created and the ownership call failed
C7_Witness ==
    /\ op = "CreateIsiVolumeWithACL"
    /\ Len(sent) = 2
    /\ args.t1.StatusCode = 200 /\ args.t1.body.kind = "json"
    /\ args.t2.StatusCode = 404
    /\ ret.err.kind = "JSONError"

\* C8: every request with a non-nil body carries exactly one Content-Type
\* value: the caller's Content-Type header if one was supplied, otherwise
\* binary/octet-stream for a stream passed through as it is, otherwise
\* application/json with the body JSON-encoded.
C8_ExactlyOneContentType ==
    (op \in GenericOps /\ Len(sent) = 1 /\ args.body # NilBody) =>
       LET ct == sent[1].header[headerKeyContentType]
           supplied == {args.headers[k] : k \in {k \in DOMAIN args.headers : Canonical(k) = headerKeyContentType}}
       IN  /\ Len(ct) = 1
           /\ IF supplied # {} THEN ct[1] \in supplied
              ELSE IF args.body.kind = "stream" THEN ct[1] = headerValContentTypeBinaryOctetStream
              ELSE ct[1] = headerValContentTypeJSON
           /\ sent[1].body = IF args.body.kind = "stream" THEN args.body
                             ELSE [kind |-> "json", data |-> args.body.data]

\* C9: every request sent, the version probe included, carries the basic-auth
\* credentials the client was constructed with, and no others.
C9_EveryRequestAuthenticated ==
    \A i \in 1..Len(sent) :
       sent[i].header["Authorization"] =
          << IF op \in Constructors THEN BasicAuth(args.username, args.password)
             ELSE BasicAuth(client.username, client.password) >>

\* a request whose caller supplied an Authorization header of its own
C9_Witness ==
    /\ op = "DoWithHeaders"
    /\ Len(sent) = 1
    /\ "Authorization" \in DOMAIN args.headers
    /\ args.headers["Authorization"] # BasicAuth(client.username, client.password)

\* C10: api.New with an empty hostname, username or password returns the
\* "missing endpoint, username, or password" error and no client, and sends no
\* request.
C10_MissingArgsNoProbe ==
    (op \in Constructors /\ (args.hostname = <<>> \/ args.username = "" \/ args.password = "")) =>
       /\ ~ret.panic
       /\ ret.err = errNewClient
       /\ ret.val = NoClient
       /\ client = NoClient
       /\ sent = <<>>

\* only the password is missing
C10_Witness ==
    /\ op = "New"
    /\ args.hostname # <<>> /\ args.username # "" /\ args.password = ""
    /\ ret.err = errNewClient
    /\ sent = <<>>

\* C11: one call of Get, Post, Put, Delete, Do or DoWithHeaders sends at most
\* one request; when sending fails or the reply's status is outside 200-299 the
\* error is returned to the caller and nothing more is sent.
C11_AtMostOneRequestNoRetry ==
    op \in GenericOps =>
       /\ Len(sent) <= 1
       /\ (Len(sent) = 1 /\ (args.t.neterr \/ ~IsSuccess(args.t.StatusCode))) =>
             ~ret.panic /\ ret.err # NoErr

\* GetSnapshot returned no snapshot and no error: the lookup by id failed and
\* the listing succeeded without a snapshot of the name
NothingFound ==
    /\ ~Answered(args.t1)
    /\ args.name # ""
    /\ ~args.t2.neterr /\ args.t2.StatusCode = 200 /\ args.t2.body.kind # "syntax"
    /\ \A i \in 1..Len(ListOf(args.t2)) : ListOf(args.t2)[i].Name # args.name

\* C13: RemoveSnapshot sends a delete request only for the id of a snapshot
\* that GetSnapshot returned; when GetSnapshot returns no snapshot and no error
\* it sends no delete request and returns to the caller.
C13_DeleteOnlyWhatWasFound ==
    op = "RemoveSnapshot" =>
       /\ \A i \in 1..Len(sent) :
             sent[i].method = "DELETE" =>
                /\ ~ret.val.snapshot.nil
                /\ sent[i].url = UrlOf(snapshotsPath, <<ToString(ret.val.snapshot.Id)>>)
       /\ NothingFound =>
             /\ ~ret.panic
             /\ \A i \in 1..Len(sent) : sent[i].method # "DELETE"

\* what goroutine g has read of the client so far is what New set (ret.val)
Observed(g) ==
    LET k == calls[g]
        made == ret.val
    IN  /\ (k.op \in GenericOps /\ k.pc \in {"auth", "send", "done"}) =>
              k.ubf = BuildURL(made.hostname, k.uri, k.id, <<>>)
        /\ (k.op \in GenericOps /\ k.pc \in {"send", "done"}) =>
              k.header["Authorization"] = <<BasicAuth(made.username, made.password)>>
        /\ (k.pc = "done" /\ k.op = "APIVersion") => k.num = made.apiVersion
        /\ (k.pc = "done" /\ k.op = "User") => k.val = <<made.username>>
        /\ (k.pc = "done" /\ k.op = "Group") => k.val = <<made.groupname>>
        /\ (k.pc = "done" /\ k.op = "VolumesPath") => k.val = <<made.volumePath>>
        /\ (k.pc = "done" /\ k.op = "VolumePath") => k.val = <<made.volumePath, "vol1">>

\* C12: after api.New has returned a client, no operation of the client writes
\* a configuration field: under every interleaving of concurrent calls on the
\* shared client, the client is the one New returned and every call reads the
\* configuration set at construction.
C12_SharedClientNeverWritten ==
    (\E g \in Goroutines : calls[g].pc # "idle") =>
       /\ client = ret.val
       /\ \A g \in Goroutines : Observed(g)
       /\ \A i \in 1..Len(sent) :
             sent[i].header["Authorization"] = <<BasicAuth(ret.val.username, ret.val.password)>>

\* one goroutine has read the hostname and not yet the credentials while
\* another has sent its request and returned
C12_Witness ==
    /\ \E g, h \in Goroutines :
          /\ g # h
          /\ calls[g].op \in GenericOps /\ calls[g].pc = "auth"
          /\ calls[h].op \in GenericOps /\ calls[h].pc = "done"
    /\ Len(sent) = 2

====
